---- MODULE Spec2Model ----
(***************************************************************************)
(* A model of pg_hibernator (src/pg_hibernate.c): the BufferSaver process  *)
(* with its pending list of BlockReaders (RegisterBlockReaders,            *)
(* processOnePendingWorker, BufferSaverMain), the writer of the save-files *)
(* (SaveBuffers) and the reader of one save-file (BlockReaderMain,         *)
(* ReadBlocks).                                                            *)
(***************************************************************************)
EXTENDS Integers, Sequences, FiniteSets, TLC

(***************************************************************************)
(* Bounds of the model.                                                    *)
(***************************************************************************)
\* Save-files other than the reserved file 1 that the directory may hold
\* when the BufferSaver starts (they are numbered 5, 6, ...).
MaxPending == 2

\* The lowest number of a leftover save-file besides file 1.
FirstLeftover == 5

\* Records of a save-file handed to a BlockReader whose content is arbitrary.
MaxRecords == 4

\* NBuffers: the number of buffer descriptors of the shared buffer pool.
NBuffers == 3

\* NUM_BUFFER_PARTITIONS: the number of buffer mapping partition locks.
NUM_BUFFER_PARTITIONS == 2

\* Width of BlockNumber in bits (uint32 in the source, scaled down): block
\* numbers are 0 .. 2^BlockBits - 1 and their arithmetic wraps at 2^BlockBits.
BlockBits == 4

(***************************************************************************)
(* The state.                                                              *)
(***************************************************************************)
VARIABLES
    \* ---- the BufferSaver process
    pendingWorkers,        \* static List *pendingWorkers
    last_worker,           \* static BackgroundWorkerHandle *last_worker
    got_sigterm,           \* flag set by sigtermHandler in the BufferSaver
    got_sighup,            \* flag set by sighupHandler in the BufferSaver
    guc_enabled,           \* pg_hibernator.enabled
    guc_parallel_enabled,  \* pg_hibernator.parallel
    bs_pc,                 \* position of BufferSaverMain
    \* ---- the postmaster's view of the dynamic background workers
    workers,               \* one entry per registered BlockReader, in
                           \* registration order: [id, status]
    \* ---- the directory of save-files
    savefiles,             \* file number -> [name, recs]
    \* ---- the shared buffer pool and SaveBuffers
    BufferDescriptors,     \* the NBuffers descriptors: [valid, tag_valid, tag]
    sb,                    \* the frame of SaveBuffers
    lockHeld,              \* the locks the process running SaveBuffers
                           \* holds: buffer mapping partition locks and
                           \* buffer header locks, by index
    \* ---- one BlockReader process
    rb,                    \* the frame of BlockReaderMain / ReadBlocks
    intact,                \* TRUE: no relation was dropped, rewritten or
                           \* truncated since the save-files were written
    \* ---- history
    everParallel,          \* has parallelism been enabled at any tick so far
    fetched,               \* every ReadBufferExtended call made so far
    trail,                 \* per record consumed by the running ReadBlocks:
                           \* what the catalog answered and what was fetched
    wlog                   \* every record SaveBuffers wrote, with the file
                           \* it went to and the buffer it was written for

vars == <<pendingWorkers, last_worker, got_sigterm, got_sighup, guc_enabled,
          guc_parallel_enabled, bs_pc, workers, savefiles, BufferDescriptors,
          sb, rb, intact, everParallel, fetched, trail, wlog, lockHeld>>

readerVars == <<rb, intact, fetched, trail>>

saverVars == <<BufferDescriptors, sb, wlog, lockHeld>>

schedVars == <<pendingWorkers, last_worker, got_sigterm, got_sighup,
               guc_enabled, guc_parallel_enabled, bs_pc, workers,
               everParallel>>

(***************************************************************************)
(* Background worker handles and their states.                             *)
(***************************************************************************)
\* last_worker = NULL
NULL == 0

BGWH_STARTED == "BGWH_STARTED"
BGWH_NOT_YET_STARTED == "BGWH_NOT_YET_STARTED"
BGWH_STOPPED == "BGWH_STOPPED"

\* The status the postmaster reports for a handle.
GetBackgroundWorkerPid(handle) == workers[handle].status

\* The save-file numbers the directory may hold at startup.
SaveFileIds == {1} \cup (FirstLeftover .. (FirstLeftover + MaxPending - 1))

\* All orders in which readdir may return the file numbers of a set.
RECURSIVE Enumerations(_)
Enumerations(S) ==
    IF S = {} THEN {<<>>}
    ELSE UNION {{<<x>> \o q : q \in Enumerations(S \ {x})} : x \in S}

\* A save-file whose content plays no part (the scheduler never reads it).
EmptySavefile == [name |-> "", recs |-> <<>>]

\* The save-file after remove(filepath) (line 686).
RemoveSavefile(filenum) ==
    [id \in DOMAIN savefiles \ {filenum} |-> savefiles[id]]

(***************************************************************************)
(* Signal handlers of the BufferSaver.                                     *)
(***************************************************************************)
sigtermHandler ==
    /\ bs_pc # "exit"
    /\ ~got_sigterm
    /\ got_sigterm' = TRUE
    /\ UNCHANGED <<pendingWorkers, last_worker, got_sighup, guc_enabled,
                   guc_parallel_enabled, bs_pc, workers, savefiles,
                   everParallel, readerVars, saverVars>>

sighupHandler ==
    /\ bs_pc # "exit"
    /\ ~got_sighup
    /\ got_sighup' = TRUE
    /\ UNCHANGED <<pendingWorkers, last_worker, got_sigterm, guc_enabled,
                   guc_parallel_enabled, bs_pc, workers, savefiles,
                   everParallel, readerVars, saverVars>>

(***************************************************************************)
(* RegisterBlockReaders: one pending entry per save-file of the directory, *)
(* in readdir order; nothing when the extension is disabled.               *)
(***************************************************************************)
RegisterBlockReaders ==
    /\ bs_pc = "register"
    /\ bs_pc' = "loop"
    /\ IF ~guc_enabled
       THEN pendingWorkers' = pendingWorkers
       ELSE \E q \in Enumerations(DOMAIN savefiles) :
                pendingWorkers' = pendingWorkers \o q
    /\ UNCHANGED <<last_worker, got_sigterm, got_sighup, guc_enabled,
                   guc_parallel_enabled, workers, savefiles, everParallel, readerVars, saverVars>>

(***************************************************************************)
(* processOnePendingWorker.                                                *)
(***************************************************************************)
\* Faulty variant: a worker that has not started yet is not waited for.
WaitsForLastWorker_OnlyStarted ==
    /\ last_worker # NULL
    /\ GetBackgroundWorkerPid(last_worker) = BGWH_STARTED
    /\ ~guc_parallel_enabled

\* Faulty variant: a live worker is waited for in parallel mode too.
WaitsForLastWorker_EvenParallel ==
    /\ last_worker # NULL
    /\ GetBackgroundWorkerPid(last_worker) \in
           {BGWH_STARTED, BGWH_NOT_YET_STARTED}

\* Faulty variant: a remembered worker is waited for whatever its status.
WaitsForLastWorker_AnyStatus ==
    /\ last_worker # NULL
    /\ ~guc_parallel_enabled

\* Lines 286-298: the remembered worker is still starting or running and
\* parallelism is disabled: return without registering anything.
WaitsForLastWorker ==
    /\ last_worker # NULL
    /\ GetBackgroundWorkerPid(last_worker) \in
           {BGWH_STARTED, BGWH_NOT_YET_STARTED}
    /\ ~guc_parallel_enabled

\* Faulty variant: the worker is registered for the last pending id.
RegisterWorker_LastPending(id, ok) ==
    IF ok
    THEN /\ workers' = Append(workers,
                              [id |-> pendingWorkers[Len(pendingWorkers)],
                               status |-> BGWH_NOT_YET_STARTED])
         /\ last_worker' = Len(workers) + 1
    ELSE /\ workers' = workers
         /\ last_worker' = NULL

\* RegisterWorker(id, &last_worker) for id # 0: the outcome of
\* RegisterDynamicBackgroundWorker is the postmaster's (no free slot: false).
\* On success the handle of the new worker is stored, on failure *handle is
\* left as it is, which by then is NULL (line 301) or was NULL before.
RegisterWorker(id, ok) ==
    IF ok
    THEN /\ workers' = Append(workers, [id |-> id, status |-> BGWH_NOT_YET_STARTED])
         /\ last_worker' = Len(workers) + 1
    ELSE /\ workers' = workers
         /\ last_worker' = NULL

\* Faulty variant: the first element leaves the list whatever the outcome.
PendingAfterRegister_Always(ok) == Tail(pendingWorkers)

\* Line 316: the first element leaves the list iff the worker was registered.
PendingAfterRegister(ok) ==
    IF ok THEN Tail(pendingWorkers) ELSE pendingWorkers

\* Faulty variant: the remembered worker is looked at before the list is.
processOnePendingWorker_WorkerFirst ==
    /\ bs_pc = "tick"
    /\ bs_pc' = "wait"
    /\ everParallel' = (everParallel \/ guc_parallel_enabled)
    /\ IF WaitsForLastWorker
       THEN UNCHANGED <<pendingWorkers, last_worker, workers>>
       ELSE IF Len(pendingWorkers) = 0
       THEN /\ last_worker' = NULL
            /\ UNCHANGED <<pendingWorkers, workers>>
       ELSE \E ok \in BOOLEAN :
                /\ RegisterWorker(Head(pendingWorkers), ok)
                /\ pendingWorkers' = PendingAfterRegister(ok)
    /\ UNCHANGED <<got_sigterm, got_sighup, guc_enabled,
                   guc_parallel_enabled, savefiles, readerVars, saverVars>>

processOnePendingWorker ==
    /\ bs_pc = "tick"
    /\ bs_pc' = "wait"
    /\ everParallel' = (everParallel \/ guc_parallel_enabled)
    /\ IF Len(pendingWorkers) = 0
       THEN UNCHANGED <<pendingWorkers, last_worker, workers>>
       ELSE IF WaitsForLastWorker
       THEN UNCHANGED <<pendingWorkers, last_worker, workers>>
       ELSE \E ok \in BOOLEAN :
                /\ RegisterWorker(Head(pendingWorkers), ok)
                /\ pendingWorkers' = PendingAfterRegister(ok)
    /\ UNCHANGED <<got_sigterm, got_sighup, guc_enabled,
                   guc_parallel_enabled, savefiles, readerVars, saverVars>>

(***************************************************************************)
(* BufferSaverMain.                                                        *)
(***************************************************************************)
\* Line 702: the loop test.
LoopTest ==
    /\ bs_pc = "loop"
    /\ bs_pc' = IF got_sigterm THEN "shutdown" ELSE "tick"
    /\ UNCHANGED <<pendingWorkers, last_worker, got_sigterm, got_sighup,
                   guc_enabled, guc_parallel_enabled, workers, savefiles,
                   everParallel, readerVars, saverVars>>

\* Lines 714-729: WaitLatch returns (latch set or timeout); the postmaster
\* may have died; a pending SIGHUP reloads the configuration file, which
\* may hold any value for the two SIGHUP parameters.
WaitLatch ==
    /\ bs_pc = "wait"
    /\ \E postmaster_died \in BOOLEAN :
          IF postmaster_died
          THEN /\ bs_pc' = "exit"
               /\ UNCHANGED <<got_sighup, guc_enabled, guc_parallel_enabled>>
          ELSE /\ bs_pc' = "loop"
               /\ IF got_sighup
                  THEN /\ got_sighup' = FALSE
                       /\ guc_enabled' \in BOOLEAN
                       /\ guc_parallel_enabled' \in BOOLEAN
                  ELSE UNCHANGED <<got_sighup, guc_enabled, guc_parallel_enabled>>
    /\ UNCHANGED <<pendingWorkers, last_worker, got_sigterm, workers,
                   savefiles, everParallel, readerVars, saverVars>>

\* Faulty variant: the buffers are saved whatever pg_hibernator.enabled is.
Shutdown_AlwaysSaves ==
    /\ bs_pc = "shutdown"
    /\ bs_pc' = "saving"
    /\ sb' = [sb EXCEPT !.pc = "scan"]
    /\ UNCHANGED <<pendingWorkers, last_worker, got_sigterm, got_sighup,
                   guc_enabled, guc_parallel_enabled, workers, savefiles,
                   everParallel, readerVars, BufferDescriptors, wlog, lockHeld>>

\* Lines 732-739: after the loop the buffers are saved if the extension is
\* enabled; SaveBuffers is entered here and its steps are those of
\* SaveBuffersScan, SaveBuffersWrite and SaveBuffersClose.
Shutdown ==
    /\ bs_pc = "shutdown"
    /\ IF guc_enabled
       THEN /\ bs_pc' = "saving"
            /\ sb' = [sb EXCEPT !.pc = "scan"]
       ELSE /\ bs_pc' = "exit"
            /\ UNCHANGED sb
    /\ UNCHANGED <<pendingWorkers, last_worker, got_sigterm, got_sighup,
                   guc_enabled, guc_parallel_enabled, workers, savefiles,
                   everParallel, readerVars, BufferDescriptors, wlog, lockHeld>>

\* Lines 741-745: SaveBuffers has returned (or the process has died in it);
\* the BufferSaver exits.
BufferSaverExit ==
    /\ bs_pc = "saving"
    /\ sb.pc \in {"done", "crashed"}
    /\ bs_pc' = "exit"
    /\ UNCHANGED <<pendingWorkers, last_worker, got_sigterm, got_sighup,
                   guc_enabled, guc_parallel_enabled, workers, savefiles,
                   everParallel, readerVars, saverVars>>

(***************************************************************************)
(* The life of a registered BlockReader as the postmaster reports it.      *)
(***************************************************************************)
WorkerStarts ==
    \E h \in 1 .. Len(workers) :
        /\ workers[h].status = BGWH_NOT_YET_STARTED
        /\ workers' = [workers EXCEPT ![h].status = BGWH_STARTED]
        /\ UNCHANGED <<pendingWorkers, last_worker, got_sigterm, got_sighup,
                       guc_enabled, guc_parallel_enabled, bs_pc, savefiles,
                       everParallel, readerVars, saverVars>>

\* A worker stops: it never ran, or it ran and ended in an ERROR with its
\* save-file left in place, or ReadBlocks returned and had removed the
\* save-file of the worker's number (line 686) if there was one.
WorkerStops ==
    \E h \in 1 .. Len(workers) :
        /\ workers[h].status \in {BGWH_NOT_YET_STARTED, BGWH_STARTED}
        /\ workers' = [workers EXCEPT ![h].status = BGWH_STOPPED]
        /\ \E removed \in BOOLEAN :
              savefiles' = IF removed /\ workers[h].status = BGWH_STARTED
                           THEN RemoveSavefile(workers[h].id)
                           ELSE savefiles
        /\ UNCHANGED <<pendingWorkers, last_worker, got_sigterm, got_sighup,
                       guc_enabled, guc_parallel_enabled, bs_pc,
                       everParallel, readerVars, saverVars>>

(***************************************************************************)
(* Identities of relations, forks and blocks.                              *)
(***************************************************************************)
InvalidOid == 0
InvalidForkNumber == -1

\* BlockNumber is an unsigned integer of BlockBits bits.
BlockMod == 2 ^ BlockBits
InvalidBlockNumber == BlockMod - 1

\* static char *guc_default_database = "postgres"
guc_default_database == "postgres"

(***************************************************************************)
(* SaveBuffers.                                                            *)
(***************************************************************************)
\* The pages a buffer may hold: database 0 is the global objects.
Databases == {InvalidOid, 5, 6}
Filenodes == {InvalidOid, 42}
Forks == {0, 1}
Blocks == {0, 1, 2}

BufferTags ==
    [database : Databases, filenode : Filenodes, forknum : Forks,
     blocknum : Blocks]

\* A descriptor that passes the test of line 788 holds any page; one that
\* fails it (here: BM_TAG_VALID without BM_VALID, a read in progress) holds
\* the tag of a page that is not to be saved.
LeftoverTag ==
    [database |-> 5, filenode |-> 42, forknum |-> 0, blocknum |-> 1]

Descriptors ==
    {[valid |-> TRUE, tag_valid |-> TRUE, tag |-> t] : t \in BufferTags}
    \cup {[valid |-> FALSE, tag_valid |-> TRUE, tag |-> LeftoverTag]}

\* Faulty variant: the tag is not tested for validity.
IsSaved_ValidOnly(desc) == desc.valid

\* Line 788: (bufstate & BM_VALID) && (bufstate & BM_TAG_VALID).
IsSaved(desc) == desc.valid /\ desc.tag_valid

\* The order of two pages (svdbfrcmp, SavedBufferCmp): -1, 1, or 0 for two
\* identical pages.
SavedBufferCmp(a, b) ==
    IF a.database < b.database THEN -1
    ELSE IF a.database > b.database THEN 1
    ELSE IF a.filenode < b.filenode THEN -1
    ELSE IF a.filenode > b.filenode THEN 1
    ELSE IF a.forknum < b.forknum THEN -1
    ELSE IF a.forknum > b.forknum THEN 1
    ELSE IF a.blocknum < b.blocknum THEN -1
    ELSE IF a.blocknum > b.blocknum THEN 1
    ELSE 0

\* The buffer pools: no two valid buffers hold the same page.  The order of
\* the pages in the pool plays a part only until pg_qsort has run; the pools
\* drawn hold their pages in ascending or in descending order.
BufferPools ==
    {pool \in [1 .. NBuffers -> Descriptors] :
        \/ \A a, b \in 1 .. NBuffers :
              (a < b /\ IsSaved(pool[a]) /\ IsSaved(pool[b]))
                  => SavedBufferCmp(pool[a].tag, pool[b].tag) < 0
        \/ \A a, b \in 1 .. NBuffers :
              (a < b /\ IsSaved(pool[a]) /\ IsSaved(pool[b]))
                  => SavedBufferCmp(pool[a].tag, pool[b].tag) > 0}

\* get_database_name(database)
get_database_name(database) ==
    CASE database = 5 -> "db5"
      [] database = 6 -> "db6"
      [] OTHER -> "(null)"

\* Lines 774-799: the scan copies the tag of every descriptor that passes
\* the test, in descriptor order.
RECURSIVE ScanBuffers(_, _)
ScanBuffers(pool, n) ==
    IF n = 0 THEN <<>>
    ELSE IF IsSaved(pool[n])
    THEN Append(ScanBuffers(pool, n - 1), pool[n].tag)
    ELSE ScanBuffers(pool, n - 1)

\* pg_qsort(saved_buffers, num_buffers, ..., SavedBufferCmp): the elements
\* in the order of the comparison function (as an insertion sort).
RECURSIVE InsertSorted(_, _)
InsertSorted(sorted, x) ==
    IF sorted = <<>> THEN <<x>>
    ELSE IF SavedBufferCmp(x, Head(sorted)) < 0 THEN <<x>> \o sorted
    ELSE <<Head(sorted)>> \o InsertSorted(Tail(sorted), x)

\* Faulty variant: the pages are left in scan order.
pg_qsort_ScanOrder(bufs) == bufs

RECURSIVE pg_qsort(_)
pg_qsort(bufs) ==
    IF bufs = <<>> THEN <<>>
    ELSE InsertSorted(pg_qsort(SubSeq(bufs, 1, Len(bufs) - 1)),
                      bufs[Len(bufs)])

\* The locals of SaveBuffers as they are declared (lines 750-763); i and the
\* indexes of saved_buffers are those of the source (from 0).
SbIdle ==
    [pc |-> "idle", saved_buffers |-> <<>>, num_buffers |-> 0, i |-> 0,
     file |-> <<>>, database_counter |-> 0,
     prev_database |-> InvalidOid, prev_filenode |-> InvalidOid,
     prev_forknum |-> InvalidForkNumber,
     prev_blocknum |-> InvalidBlockNumber, range_counter |-> 0]

\* Lines 774-820: scan the pool, sort what was found.
SaveBuffersScan ==
    /\ sb.pc = "scan"
    /\ LET found == ScanBuffers(BufferDescriptors, NBuffers)
       IN  sb' = [sb EXCEPT !.pc = "write",
                            !.saved_buffers = pg_qsort(found),
                            !.num_buffers = Len(found),
                            !.i = 0]
    /\ UNCHANGED <<schedVars, readerVars, savefiles, BufferDescriptors, wlog,
                   lockHeld>>

(***************************************************************************)
(* The scan of SaveBuffers (lines 776-813) step by step, with its locks.   *)
(* SaveBuffersScan above is the same code taken as one step.  While the    *)
(* scan runs, sb.i is the loop counter i of the source.                    *)
(***************************************************************************)
\* No lock held.
NoLock == [partitions |-> {}, headers |-> {}]

\* Lines 777-778: LWLockAcquire(BufMappingPartitionLockByIndex(i), LW_SHARED)
\* for i = 0, 1, ...; after the last one the scan loop starts.
LWLockAcquire ==
    /\ sb.pc = "scan"
    /\ sb.i < NUM_BUFFER_PARTITIONS
    /\ lockHeld' = [lockHeld EXCEPT !.partitions = @ \cup {sb.i}]
    /\ sb' = IF sb.i + 1 < NUM_BUFFER_PARTITIONS
             THEN [sb EXCEPT !.i = @ + 1]
             ELSE [sb EXCEPT !.pc = "LockBufHdr", !.i = 0, !.num_buffers = 0]
    /\ UNCHANGED <<schedVars, readerVars, savefiles, BufferDescriptors, wlog>>

\* Line 785: bufstate = LockBufHdr(bufHdr) for the descriptor at index i.
LockBufHdr ==
    /\ sb.pc = "LockBufHdr"
    /\ lockHeld' = [lockHeld EXCEPT !.headers = @ \cup {sb.i}]
    /\ sb' = [sb EXCEPT !.pc = "inspect"]
    /\ UNCHANGED <<schedVars, readerVars, savefiles, BufferDescriptors, wlog>>

\* Lines 788-796: the tag of a valid descriptor is copied to saved_buffers.
InspectBufHdr ==
    /\ sb.pc = "inspect"
    /\ sb' = IF IsSaved(BufferDescriptors[sb.i + 1])
             THEN [sb EXCEPT !.pc = "UnlockBufHdr",
                             !.saved_buffers =
                                 Append(@, BufferDescriptors[sb.i + 1].tag),
                             !.num_buffers = @ + 1]
             ELSE [sb EXCEPT !.pc = "UnlockBufHdr"]
    /\ UNCHANGED <<schedVars, readerVars, savefiles, BufferDescriptors, wlog,
                   lockHeld>>

\* Line 798: UnlockBufHdr(bufHdr, bufstate), then ++i and the loop test of
\* line 781; after the last descriptor the release loop starts (line 802).
UnlockBufHdr ==
    /\ sb.pc = "UnlockBufHdr"
    /\ lockHeld' = [lockHeld EXCEPT !.headers = @ \ {sb.i}]
    /\ sb' = IF sb.i + 1 < NBuffers
             THEN [sb EXCEPT !.pc = "LockBufHdr", !.i = @ + 1]
             ELSE [sb EXCEPT !.pc = "LWLockRelease",
                             !.i = NUM_BUFFER_PARTITIONS - 1]
    /\ UNCHANGED <<schedVars, readerVars, savefiles, BufferDescriptors, wlog>>

\* Faulty variant: the partition locks are released in ascending order.
LWLockRelease_Ascending ==
    /\ sb.pc = "LWLockRelease"
    /\ lockHeld' = [lockHeld EXCEPT
                       !.partitions = @ \ {NUM_BUFFER_PARTITIONS - 1 - sb.i}]
    /\ sb' = IF sb.i > 0
             THEN [sb EXCEPT !.i = @ - 1]
             ELSE [sb EXCEPT !.pc = "sort"]
    /\ UNCHANGED <<schedVars, readerVars, savefiles, BufferDescriptors, wlog>>

\* Lines 802-803: LWLockRelease(BufMappingPartitionLockByIndex(i)) for
\* i = NUM_BUFFER_PARTITIONS - 1 down to 0.
LWLockRelease ==
    /\ sb.pc = "LWLockRelease"
    /\ lockHeld' = [lockHeld EXCEPT !.partitions = @ \ {sb.i}]
    /\ sb' = IF sb.i > 0
             THEN [sb EXCEPT !.i = @ - 1]
             ELSE [sb EXCEPT !.pc = "sort"]
    /\ UNCHANGED <<schedVars, readerVars, savefiles, BufferDescriptors, wlog>>

\* Line 813: pg_qsort; the write loop is next.
SortSavedBuffers ==
    /\ sb.pc = "sort"
    /\ sb' = [sb EXCEPT !.pc = "write",
                        !.saved_buffers = pg_qsort(@),
                        !.i = 0]
    /\ UNCHANGED <<schedVars, readerVars, savefiles, BufferDescriptors, wlog,
                   lockHeld>>

\* fileOpen(getSavefileName(id), PG_BINARY_W) followed by writeDBName.
OpenSavefile(files, id, name) ==
    [x \in DOMAIN files \cup {id} |->
        IF x = id THEN [name |-> name, recs |-> <<>>] ELSE files[x]]

\* fileWrite of one record to the save-file id.
WriteRecord(files, id, tag, val) ==
    [files EXCEPT ![id].recs = Append(@, [tag |-> tag, val |-> val])]

\* Faulty variant: the look-ahead does not compare the fork.
RECURSIVE RangeCounter_IgnoresFork(_, _, _, _)
RangeCounter_IgnoresFork(f, buf, j, range_counter) ==
    IF j < f.num_buffers
       /\ f.saved_buffers[j + 1].database = buf.database
       /\ f.saved_buffers[j + 1].filenode = buf.filenode
       /\ f.saved_buffers[j + 1].blocknum =
              (buf.blocknum + range_counter + 1) % BlockMod
    THEN RangeCounter_IgnoresFork(f, buf, j + 1, range_counter + 1)
    ELSE range_counter

\* Lines 925-940: how many of the buffers after index i continue the run of
\* consecutive blocks of the same database, relation and fork.
RECURSIVE RangeCounter(_, _, _, _)
RangeCounter(f, buf, j, range_counter) ==
    IF j < f.num_buffers
       /\ f.saved_buffers[j + 1].database = buf.database
       /\ f.saved_buffers[j + 1].filenode = buf.filenode
       /\ f.saved_buffers[j + 1].forknum = buf.forknum
       /\ f.saved_buffers[j + 1].blocknum =
              (buf.blocknum + range_counter + 1) % BlockMod
    THEN RangeCounter(f, buf, j + 1, range_counter + 1)
    ELSE range_counter

\* Lines 827-848: the first buffer opens save-file 1 with the empty name.
FirstBuffer(st, buf) ==
    IF st.f.i = 0
    THEN [f |-> [st.f EXCEPT !.database_counter = 1,
                             !.file = <<1>>,
                             !.prev_database = buf.database],
          files |-> OpenSavefile(st.files, 1, ""),
          log |-> st.log]
    ELSE st

\* Lines 850-880: a buffer of another database opens the next save-file.
NextDatabase(st, buf) ==
    IF buf.database # st.f.prev_database
    THEN [f |-> [st.f EXCEPT !.database_counter = @ + 1,
                             !.file = <<st.f.database_counter + 1>>,
                             !.prev_database = buf.database,
                             !.prev_filenode = InvalidOid,
                             !.prev_forknum = InvalidForkNumber,
                             !.prev_blocknum = InvalidBlockNumber,
                             !.range_counter = 0],
          files |-> OpenSavefile(st.files, st.f.database_counter + 1,
                                 get_database_name(buf.database)),
          log |-> st.log]
    ELSE st

\* One fileWrite pair (marker and value) to the open file, for buffer buf.
Emit(st, buf, tag, val) ==
    [f |-> st.f,
     files |-> WriteRecord(st.files, st.f.file[1], tag, val),
     log |-> Append(st.log, [file |-> st.f.file[1], tag |-> tag,
                             val |-> val, buf |-> buf])]

\* Lines 882-893: a new relation.
NextFilenode(st, buf) ==
    IF buf.filenode # st.f.prev_filenode
    THEN LET w == Emit(st, buf, "r", buf.filenode)
         IN  [w EXCEPT !.f.prev_filenode = buf.filenode,
                       !.f.prev_forknum = InvalidForkNumber,
                       !.f.prev_blocknum = InvalidBlockNumber,
                       !.f.range_counter = 0]
    ELSE st

\* Lines 895-908: a new fork.
NextForknum(st, buf) ==
    IF buf.forknum # st.f.prev_forknum
    THEN LET w == Emit(st, buf, "f", buf.forknum)
         IN  [w EXCEPT !.f.prev_forknum = buf.forknum,
                       !.f.prev_blocknum = InvalidBlockNumber,
                       !.f.range_counter = 0]
    ELSE st

\* Lines 914-952: the block, then the range that follows it, if any.
BlockAndRange(st, buf) ==
    LET w == Emit(st, buf, "b", buf.blocknum)
        range_counter == RangeCounter(st.f, buf, st.f.i + 1, 0)
        x == [w EXCEPT !.f.prev_blocknum = buf.blocknum,
                       !.f.range_counter = range_counter]
    IN  IF range_counter # 0
        THEN LET y == Emit(x, buf, "N", range_counter)
             IN  [y EXCEPT !.f.i = @ + range_counter]
        ELSE x

\* The body of the for loop of lines 822-953 for the buffer at index i, and
\* the ++i that follows it.
LoopTurn(st) ==
    LET buf == st.f.saved_buffers[st.f.i + 1]
        w == BlockAndRange(
                 NextForknum(
                     NextFilenode(
                         NextDatabase(FirstBuffer(st, buf), buf),
                         buf),
                     buf),
                 buf)
    IN  [w EXCEPT !.f.i = @ + 1]

\* One turn of the for loop of lines 822-953, or its end.  Line 835,
\* Assert(buf->database == InvalidOid): in a build with assertions the
\* process dies there when the first buffer is not of the global objects; in
\* a build without them the loop goes on.
SaveBuffersWrite ==
    /\ sb.pc = "write"
    /\ IF sb.i < sb.num_buffers
       THEN LET buf == sb.saved_buffers[sb.i + 1]
                st == LoopTurn([f |-> sb, files |-> savefiles, log |-> wlog])
            IN  \/ /\ sb.i = 0
                   /\ buf.database # InvalidOid
                   /\ sb' = [sb EXCEPT !.pc = "crashed"]
                   /\ UNCHANGED <<savefiles, wlog>>
                \/ /\ sb' = st.f
                   /\ savefiles' = st.files
                   /\ wlog' = st.log
       ELSE /\ sb' = [sb EXCEPT !.pc = "close"]
            /\ UNCHANGED <<savefiles, wlog>>
    /\ UNCHANGED <<schedVars, readerVars, BufferDescriptors, lockHeld>>

\* Lines 955-965: Assert(file != NULL); fileClose(file, savefile_path).
\* With file == NULL the assertion fails, or (without assertions) the NULL
\* FILE pointer is closed: the process dies there or goes on.
SaveBuffersClose ==
    /\ sb.pc = "close"
    /\ IF sb.file = <<>>
       THEN \E outcome \in {"crashed", "done"} : sb' = [sb EXCEPT !.pc = outcome]
       ELSE sb' = [sb EXCEPT !.pc = "done", !.file = <<>>]
    /\ UNCHANGED <<schedVars, readerVars, savefiles, BufferDescriptors, wlog,
                   lockHeld>>

\* No save-file at all.
NoSavefiles == [id \in {} |-> EmptySavefile]

\* The save-files a whole run of SaveBuffers (scan, sort, write loop) leaves
\* in an empty directory when it finds the buffer pool as given.
RECURSIVE WriteLoop(_)
WriteLoop(st) ==
    IF st.f.i < st.f.num_buffers THEN WriteLoop(LoopTurn(st)) ELSE st

SaveBuffersOn(pool) ==
    LET found == ScanBuffers(pool, NBuffers)
    IN  WriteLoop([f |-> [SbIdle EXCEPT !.saved_buffers = pg_qsort(found),
                                        !.num_buffers = Len(found)],
                   files |-> NoSavefiles,
                   log |-> <<>>]).files

(***************************************************************************)
(* ReadBlocks: the records of a save-file are [tag, val]; tag is the       *)
(* marker byte ("r", "f", "b", "N", any other byte is "x") and val the     *)
(* fixed-width value that follows it.                                      *)
(* The frame rb holds the locals of ReadBlocks.  A local that the source   *)
(* declares without an initial value (record_filenode, record_forknum,     *)
(* record_blocknum) is <<>> until it is first assigned, and <<v>> after.   *)
(***************************************************************************)
RbIdle ==
    [pc |-> "idle", filenum |-> 0, got_sigterm |-> FALSE, pos |-> 0,
     dbname |-> "", conn |-> "", err |-> "",
     record_filenode |-> <<>>, record_forknum |-> <<>>,
     record_blocknum |-> <<>>,
     rel |-> <<>>, skip_relation |-> FALSE, skip_fork |-> FALSE,
     skip_block |-> FALSE, nblocks |-> 0, blocks_restored |-> 0]

\* What an uninitialized record_forknum / record_blocknum may hold when it
\* is read: the value the test on it looks for, or any other.
GarbageForkNumbers == {InvalidForkNumber, 0}
GarbageBlockNumbers == {InvalidBlockNumber, 0}

\* The value a local holds when it is read: the garbage g if never assigned.
ValueOf(local, g) == IF local = <<>> THEN g ELSE local[1]

\* ereport(ERROR, errmsg(what)): the worker leaves through the error exit.
RaiseError(f, what) == [f EXCEPT !.pc = "error", !.err = what]

\* The error messages of BlockReaderMain and ReadBlocks.
ErrNoSavefile == "could not find its save-file"
ErrForkWithoutRel == "found a fork record without a preceeding relation record"
ErrBlockWithoutFork == "found a block record without a preceeding fork record"
ErrRangeWithoutBlock == "found a block range record without a preceeding block record"
ErrUnexpectedMarker == "found unexpected save-file marker"
ErrRemove == "error removing file"
ErrFileRead == "error reading file"

\* One ReadBufferExtended call made by the frame f.
Fetch(f, forknum, blocknum) ==
    [filenum |-> f.filenum, dbname |-> f.dbname, conn |-> f.conn,
     filenode |-> f.rel[1], forknum |-> forknum, blocknum |-> blocknum]

\* The result of one pass through the loop body: the frame and the fetches.
Pass(f, fetches) == [frame |-> f, fetches |-> fetches]

\* case 'r' (lines 515-549); found: GetRelOid(record_filenode) # InvalidOid.
ReadRelRecord(f, val, found) ==
    Pass([f EXCEPT !.rel = IF found THEN <<val>> ELSE <<>>,
                   !.record_forknum = <<InvalidForkNumber>>,
                   !.record_blocknum = <<InvalidBlockNumber>>,
                   !.nblocks = 0,
                   !.record_filenode = <<val>>,
                   !.skip_relation = ~found],
         <<>>)

\* Faulty variant: the fork record of a skipped relation is not passed over.
ReadForkRecord_NoSkip(f, val, exists, n) ==
    LET g == [f EXCEPT !.record_blocknum = <<InvalidBlockNumber>>,
                       !.nblocks = 0,
                       !.record_forknum = <<val>>]
    IN  IF f.rel = <<>> THEN Pass(RaiseError(g, ErrForkWithoutRel), <<>>)
        ELSE IF ~exists THEN Pass([g EXCEPT !.skip_fork = TRUE], <<>>)
        ELSE Pass([g EXCEPT !.skip_fork = FALSE, !.nblocks = n], <<>>)

\* case 'f' (lines 550-575); exists: smgrexists; n: the fork's block count.
ReadForkRecord(f, val, exists, n) ==
    LET g == [f EXCEPT !.record_blocknum = <<InvalidBlockNumber>>,
                       !.nblocks = 0,
                       !.record_forknum = <<val>>]
    IN  IF f.skip_relation THEN Pass(g, <<>>)
        ELSE IF f.rel = <<>> THEN Pass(RaiseError(g, ErrForkWithoutRel), <<>>)
        ELSE IF ~exists THEN Pass([g EXCEPT !.skip_fork = TRUE], <<>>)
        ELSE Pass([g EXCEPT !.skip_fork = FALSE, !.nblocks = n], <<>>)

\* case 'b' (lines 576-616).
ReadBlockRecord(f, val, garbage) ==
    LET forknum == ValueOf(f.record_forknum, garbage)
        g == [f EXCEPT !.record_forknum = <<forknum>>]
        h == [g EXCEPT !.record_blocknum = <<val>>]
    IN  IF forknum = InvalidForkNumber
        THEN Pass(RaiseError(g, ErrBlockWithoutFork), <<>>)
        ELSE IF f.skip_relation \/ f.skip_fork THEN Pass(h, <<>>)
        ELSE IF val >= f.nblocks
        THEN Pass([h EXCEPT !.skip_block = TRUE], <<>>)
        ELSE Pass([h EXCEPT !.skip_block = FALSE,
                            !.blocks_restored = @ + 1],
                  <<Fetch(f, forknum, val)>>)

\* The for loop of lines 636-658: block runs from its start while
\* block <= end, stops at the first block >= nblocks; unsigned arithmetic.
RECURSIVE RangeLoop(_, _, _, _)
RangeLoop(block, end, nblocks, acc) ==
    IF block <= end
    THEN IF block >= nblocks THEN acc
         ELSE RangeLoop((block + 1) % BlockMod, end, nblocks,
                        Append(acc, block))
    ELSE acc

\* Faulty variant: the loop of a range starts at the block before it.
ReadRangeRecord_FromBlock(f, val, garbage) ==
    LET blocknum == ValueOf(f.record_blocknum, garbage)
        g == [f EXCEPT !.record_blocknum = <<blocknum>>]
    IN  IF blocknum = InvalidBlockNumber
        THEN Pass(RaiseError(g, ErrRangeWithoutBlock), <<>>)
        ELSE IF f.skip_relation \/ f.skip_fork \/ f.skip_block
        THEN Pass(g, <<>>)
        ELSE LET blocks == RangeLoop(blocknum,
                                     (blocknum + val) % BlockMod,
                                     f.nblocks, <<>>)
             IN  Pass([g EXCEPT !.blocks_restored = @ + Len(blocks)],
                      [k \in 1 .. Len(blocks) |->
                          Fetch(f, f.record_forknum[1], blocks[k])])

\* case 'N' (lines 617-660).
ReadRangeRecord(f, val, garbage) ==
    LET blocknum == ValueOf(f.record_blocknum, garbage)
        g == [f EXCEPT !.record_blocknum = <<blocknum>>]
    IN  IF blocknum = InvalidBlockNumber
        THEN Pass(RaiseError(g, ErrRangeWithoutBlock), <<>>)
        ELSE IF f.skip_relation \/ f.skip_fork \/ f.skip_block
        THEN Pass(g, <<>>)
        ELSE LET blocks == RangeLoop((blocknum + 1) % BlockMod,
                                     (blocknum + val) % BlockMod,
                                     f.nblocks, <<>>)
             IN  Pass([g EXCEPT !.blocks_restored = @ + Len(blocks)],
                      [k \in 1 .. Len(blocks) |->
                          Fetch(f, f.record_forknum[1], blocks[k])])

\* The switch of lines 513-668 on one record.
ReadRecord(f, rec, ans, garbage) ==
    CASE rec.tag = "r" -> ReadRelRecord(f, rec.val, ans.found)
      [] rec.tag = "f" -> ReadForkRecord(f, rec.val, ans.found, ans.nblocks)
      [] rec.tag = "b" -> ReadBlockRecord(f, rec.val, garbage)
      [] rec.tag = "N" -> ReadRangeRecord(f, rec.val, garbage)
      [] OTHER -> Pass(RaiseError(f, ErrUnexpectedMarker), <<>>)

\* The block counts a fork may have when it is looked at again.
NBlockChoices == {10, 12, 13}

\* What the catalog may answer while the frame f handles rec: for 'r' whether
\* GetRelOid finds the relation, for 'f' (when the fork is looked at at all)
\* whether the fork exists and how many blocks it has.  With everything
\* intact the relation is found, the fork exists and holds every block.
NoAnswer == [asked |-> "none", found |-> FALSE, nblocks |-> 0]

CatalogAnswers(f, rec) ==
    IF rec.tag = "r"
    THEN {[asked |-> "rel", found |-> b, nblocks |-> 0] :
              b \in IF intact THEN {TRUE} ELSE BOOLEAN}
    ELSE IF rec.tag = "f" /\ ~f.skip_relation /\ f.rel # <<>>
    THEN {[asked |-> "fork", found |-> TRUE, nblocks |-> n] :
              n \in IF intact THEN {InvalidBlockNumber} ELSE NBlockChoices}
         \cup (IF intact THEN {}
               ELSE {[asked |-> "fork", found |-> FALSE, nblocks |-> 0]})
    ELSE {NoAnswer}

\* The garbage an uninitialized local read by this record may hold.
GarbageFor(f, rec) ==
    IF rec.tag = "b" /\ f.record_forknum = <<>> THEN GarbageForkNumbers
    ELSE IF rec.tag = "N" /\ f.record_blocknum = <<>> THEN GarbageBlockNumbers
    ELSE {0}

\* BlockReaderMain up to the loop of ReadBlocks (lines 368-419, 466-483):
\* look for the save-file, open it, read the database name, connect.
BlockReaderMain ==
    /\ rb.pc = "start"
    /\ IF rb.filenum \notin DOMAIN savefiles
       THEN rb' = RaiseError(rb, ErrNoSavefile)
       ELSE rb' = [rb EXCEPT
                     !.pc = "loop",
                     !.dbname = savefiles[rb.filenum].name,
                     !.conn = IF rb.filenum = 1 THEN guc_default_database
                              ELSE savefiles[rb.filenum].name]
    /\ trail' = <<>>
    /\ UNCHANGED <<schedVars, savefiles, intact, fetched, saverVars>>

\* Whether a fileRead of this turn (lines 489, 528, 555, 582, 627) fails
\* with an ERROR; it does not while the data directory is intact.
ReadFailures == IF intact THEN {FALSE} ELSE BOOLEAN

\* One turn of the while loop of lines 489-669.
ReadBlocksLoop ==
    /\ rb.pc = "loop"
    /\ LET recs == savefiles[rb.filenum].recs
       IN  IF rb.pos = Len(recs) \/ rb.got_sigterm
           THEN \* fileRead found the end of the file, or line 508: break
                /\ rb' = [rb EXCEPT !.pc = "after"]
                /\ UNCHANGED <<fetched, trail>>
           ELSE \E ans \in CatalogAnswers(rb, recs[rb.pos + 1]),
                   garbage \in GarbageFor(rb, recs[rb.pos + 1]),
                   failed \in ReadFailures :
                    LET p == IF failed
                             THEN Pass(RaiseError(rb, ErrFileRead), <<>>)
                             ELSE ReadRecord(rb, recs[rb.pos + 1], ans,
                                             garbage)
                    IN  IF p.frame.pc = "error"
                        THEN /\ rb' = p.frame
                             /\ UNCHANGED <<fetched, trail>>
                        ELSE /\ rb' = [p.frame EXCEPT !.pos = @ + 1]
                             /\ fetched' = fetched \o p.fetches
                             /\ trail' = Append(trail,
                                    [asked |-> ans.asked, found |-> ans.found,
                                     nblocks |-> ans.nblocks,
                                     fetches |-> [k \in 1 .. Len(p.fetches) |->
                                                     p.fetches[k].blocknum]])
    /\ UNCHANGED <<schedVars, savefiles, intact, saverVars>>

\* Faulty variant: the result of remove is not looked at.
ReadBlocksFinish_IgnoresRemove ==
    /\ rb.pc = "after"
    /\ \E removed \in BOOLEAN :
          /\ savefiles' = IF removed THEN RemoveSavefile(rb.filenum)
                          ELSE savefiles
          /\ rb' = [rb EXCEPT !.pc = "returned", !.rel = <<>>]
    /\ UNCHANGED <<schedVars, intact, fetched, trail, saverVars>>

\* Lines 671-690: after the loop the relation and the file are closed and
\* the save-file is removed; a failing remove is an ERROR.
ReadBlocksFinish ==
    /\ rb.pc = "after"
    /\ \E removed \in BOOLEAN :
          IF removed
          THEN /\ savefiles' = RemoveSavefile(rb.filenum)
               /\ rb' = [rb EXCEPT !.pc = "returned", !.rel = <<>>]
          ELSE /\ savefiles' = savefiles
               /\ rb' = RaiseError([rb EXCEPT !.rel = <<>>], ErrRemove)
    /\ UNCHANGED <<schedVars, intact, fetched, trail, saverVars>>

\* Lines 434-435: "all blocks read successfully" is logged, proc_exit(1).
BlockReaderExit ==
    /\ rb.pc = "returned"
    /\ rb' = [rb EXCEPT !.pc = "exited"]
    /\ UNCHANGED <<schedVars, savefiles, intact, fetched, trail, saverVars>>

\* sigtermHandler in the BlockReader process.
readerSigterm ==
    /\ rb.pc = "loop"
    /\ ~rb.got_sigterm
    /\ rb' = [rb EXCEPT !.got_sigterm = TRUE]
    /\ UNCHANGED <<schedVars, savefiles, intact, fetched, trail, saverVars>>

(***************************************************************************)
(* The reader's specification: one BlockReader on a save-file of arbitrary *)
(* content.  ReadBlocks reads the file front to back and never looks       *)
(* ahead, so the content is drawn record by record, each record just       *)
(* before the reader gets to it.                                           *)
(***************************************************************************)
RecordAlphabet ==
    {[tag |-> "r", val |-> v] : v \in {42, 43}}
    \cup {[tag |-> "f", val |-> v] : v \in {0, 1}}
    \cup {[tag |-> "b", val |-> 10]}
    \cup {[tag |-> "N", val |-> v] : v \in {2, BlockMod - 1}}
    \cup {[tag |-> "x", val |-> 0]}

DrawRecord ==
    /\ rb.pc = "loop"
    /\ rb.pos = Len(savefiles[rb.filenum].recs)
    /\ rb.pos < MaxRecords
    /\ \E rec \in RecordAlphabet :
          savefiles' = [savefiles EXCEPT ![rb.filenum].recs = Append(@, rec)]
    /\ UNCHANGED <<schedVars, rb, intact, fetched, trail, saverVars>>

SaverIdle ==
    /\ BufferDescriptors = <<>>
    /\ sb = SbIdle
    /\ wlog = <<>>
    /\ lockHeld = NoLock

SchedIdle ==
    /\ pendingWorkers = <<>>
    /\ last_worker = NULL
    /\ got_sigterm = FALSE
    /\ got_sighup = FALSE
    /\ guc_enabled = TRUE
    /\ guc_parallel_enabled = FALSE
    /\ bs_pc = "exit"
    /\ workers = <<>>
    /\ everParallel = FALSE

InitReader ==
    /\ SchedIdle
    /\ SaverIdle
    /\ \E id \in {1, 2} :
          /\ \/ savefiles = (id :> [name |-> IF id = 1 THEN "" ELSE "db5",
                                    recs |-> <<>>])
             \/ savefiles = NoSavefiles
          /\ rb = [RbIdle EXCEPT !.pc = "start", !.filenum = id]
    /\ intact = FALSE
    /\ fetched = <<>>
    /\ trail = <<>>

NextReader ==
    \/ BlockReaderMain
    \/ DrawRecord
    \/ ReadBlocksLoop
    \/ ReadBlocksFinish
    \/ BlockReaderExit
    \/ readerSigterm

SpecReader == InitReader /\ [][NextReader]_vars

(***************************************************************************)
(* The writer's specification: SaveBuffers on any buffer pool, into an     *)
(* empty directory.                                                        *)
(***************************************************************************)
InitSave ==
    /\ SchedIdle
    /\ BufferDescriptors \in BufferPools
    /\ sb = [SbIdle EXCEPT !.pc = "scan"]
    /\ wlog = <<>>
    /\ lockHeld = NoLock
    /\ savefiles = NoSavefiles
    /\ rb = RbIdle
    /\ intact = TRUE
    /\ fetched = <<>>
    /\ trail = <<>>

NextSave ==
    \/ SaveBuffersScan
    \/ SaveBuffersWrite
    \/ SaveBuffersClose

SpecSave == InitSave /\ [][NextSave]_vars

(***************************************************************************)
(* The round trip: SaveBuffers on any buffer pool, then one BlockReader    *)
(* after the other on the save-files written, lowest number first, with    *)
(* every relation and fork still there and no shutdown request.            *)
(***************************************************************************)
\* The postmaster starts the BlockReader registered for the next save-file
\* (RegisterWorker: bgw_main = BlockReaderMain, bgw_main_arg = id).
LaunchBlockReader ==
    /\ sb.pc = "done"
    /\ rb.pc \in {"idle", "exited", "error"}
    /\ \E id \in DOMAIN savefiles :
          /\ id > rb.filenum
          /\ \A other \in DOMAIN savefiles : other > rb.filenum => id <= other
          /\ rb' = [RbIdle EXCEPT !.pc = "start", !.filenum = id]
    /\ UNCHANGED <<schedVars, savefiles, intact, fetched, trail, saverVars>>

NextRoundTrip ==
    \/ SaveBuffersScan
    \/ SaveBuffersWrite
    \/ SaveBuffersClose
    \/ LaunchBlockReader
    \/ BlockReaderMain
    \/ ReadBlocksLoop
    \/ ReadBlocksFinish
    \/ BlockReaderExit

SpecRoundTrip == InitSave /\ [][NextRoundTrip]_vars

(***************************************************************************)
(* The scan's specification: SaveBuffers with its scan taken step by step, *)
(* on buffer pools whose descriptors carry every combination of the two    *)
(* flags.                                                                  *)
(***************************************************************************)
\* Descriptor a holds the a-th block of relation 42, the first of them in
\* the global objects, the others in database 5.
ScanTag(a) ==
    [database |-> IF a = 1 THEN InvalidOid ELSE 5, filenode |-> 42,
     forknum |-> 0, blocknum |-> a - 1]

InitScan ==
    /\ SchedIdle
    /\ rb = RbIdle
    /\ fetched = <<>>
    /\ trail = <<>>
    /\ intact = TRUE
    /\ savefiles = NoSavefiles
    /\ \E flags \in [1 .. NBuffers -> BOOLEAN \X BOOLEAN] :
          BufferDescriptors =
              [a \in 1 .. NBuffers |->
                  [valid |-> flags[a][1], tag_valid |-> flags[a][2],
                   tag |-> ScanTag(a)]]
    /\ sb = [SbIdle EXCEPT !.pc = "scan"]
    /\ wlog = <<>>
    /\ lockHeld = NoLock

NextScan ==
    \/ LWLockAcquire
    \/ LockBufHdr
    \/ InspectBufHdr
    \/ UnlockBufHdr
    \/ LWLockRelease
    \/ SortSavedBuffers
    \/ SaveBuffersWrite
    \/ SaveBuffersClose

SpecScan == InitScan /\ [][NextScan]_vars

(***************************************************************************)
(* The scheduler's specification.                                          *)
(***************************************************************************)
\* The buffer pool the BufferSaver finds at shutdown in the scheduler's runs:
\* a page of the global objects, a page of database 5, the other buffers
\* not valid (SaveBuffers on every pool is the subject of SpecSave).
SchedPool ==
    [a \in 1 .. NBuffers |->
        IF a = 1
        THEN [valid |-> TRUE, tag_valid |-> TRUE,
              tag |-> [database |-> InvalidOid, filenode |-> 42,
                       forknum |-> 0, blocknum |-> 0]]
        ELSE IF a = 2
        THEN [valid |-> TRUE, tag_valid |-> TRUE,
              tag |-> [database |-> 5, filenode |-> 42,
                       forknum |-> 0, blocknum |-> 0]]
        ELSE [valid |-> FALSE, tag_valid |-> TRUE, tag |-> LeftoverTag]]

InitSched ==
    /\ pendingWorkers = <<>>
    /\ last_worker = NULL
    /\ got_sigterm = FALSE
    /\ got_sighup = FALSE
    /\ guc_enabled \in BOOLEAN
    /\ guc_parallel_enabled \in BOOLEAN
    /\ bs_pc = "register"
    /\ workers = <<>>
    /\ \E ids \in SUBSET SaveFileIds : savefiles = [id \in ids |-> EmptySavefile]
    /\ everParallel = FALSE
    /\ rb = RbIdle
    /\ intact = TRUE
    /\ fetched = <<>>
    /\ trail = <<>>
    /\ BufferDescriptors = SchedPool
    /\ sb = SbIdle
    /\ wlog = <<>>
    /\ lockHeld = NoLock

NextSched ==
    \/ RegisterBlockReaders
    \/ LoopTest
    \/ processOnePendingWorker
    \/ WaitLatch
    \/ Shutdown
    \/ SaveBuffersScan
    \/ SaveBuffersWrite
    \/ SaveBuffersClose
    \/ BufferSaverExit
    \/ sigtermHandler
    \/ sighupHandler
    \/ WorkerStarts
    \/ WorkerStops

SpecSched == InitSched /\ [][NextSched]_vars

\* A call of processOnePendingWorker in which RegisterWorker succeeds.
LaunchSucceeds ==
    /\ processOnePendingWorker
    /\ Len(workers') > Len(workers)

\* The scheduler while no SIGTERM arrives, under fair scheduling, started
\* with a save-file for every number.  The BufferSaver is a process that
\* runs: each statement it has reached is executed, and WaitLatch returns
\* after its timeout of 10 seconds at the latest (line 716).  A registered
\* worker that is not stopped stops at some time, and when launches are
\* tried again and again (one per turn of the loop) one of them succeeds.
InitProgress ==
    /\ InitSched
    /\ DOMAIN savefiles = SaveFileIds

NextProgress ==
    \/ RegisterBlockReaders
    \/ LoopTest
    \/ processOnePendingWorker
    \/ WaitLatch
    \/ sighupHandler
    \/ WorkerStarts
    \/ WorkerStops

SpecProgress ==
    /\ InitProgress
    /\ [][NextProgress]_vars
    /\ WF_vars(RegisterBlockReaders)
    /\ WF_vars(LoopTest)
    /\ WF_vars(processOnePendingWorker)
    /\ WF_vars(WaitLatch)
    /\ WF_vars(WorkerStops)
    /\ SF_vars(LaunchSucceeds)

(***************************************************************************)
(* Claims about the scheduler (checked under SpecSched).                   *)
(***************************************************************************)
\* The ids of the registered BlockReaders, in registration order.
DispatchedIds == [h \in 1 .. Len(workers) |-> workers[h].id]

\* The registered BlockReaders that have not stopped.
LiveWorkers == {h \in 1 .. Len(workers) : workers[h].status # BGWH_STOPPED}

\* C3: as long as no tick has run with parallelism enabled, every worker but
\* the most recently registered one has stopped (so a worker is registered
\* only once its predecessor has stopped), and at most one worker is live.
C3_SerialDispatch ==
    ~everParallel =>
        /\ \A h \in 1 .. Len(workers) - 1 : workers[h].status = BGWH_STOPPED
        /\ Cardinality(LiveWorkers) <= 1

\* C3's case: queue [5,6], parallelism never enabled, the worker for 6
\* registered after the worker for 5.
C3_Witness ==
    /\ ~everParallel
    /\ DispatchedIds = <<5, 6>>
    /\ workers[1].status = BGWH_STOPPED
    /\ workers[2].status = BGWH_STARTED

\* C4: a tick that runs with parallelism disabled registers a worker only
\* if the most recently registered worker has stopped.
C4_DispatchOnlyAfterStopped ==
    [][(/\ Len(workers') > Len(workers)
        /\ ~guc_parallel_enabled
        /\ Len(workers) > 0)
       => workers[Len(workers)].status = BGWH_STOPPED]_vars

\* C5: after startup the registered ids followed by the pending ids stay the
\* sequence enumerated at startup; a step that registers no worker (a failed
\* launch included) leaves the pending list as it is, and a step that
\* registers a worker registers it for the first pending id and removes
\* exactly that id.
C5_QueueKeptOnFailure ==
    [][bs_pc # "register" =>
        /\ DispatchedIds' \o pendingWorkers' = DispatchedIds \o pendingWorkers
        /\ Len(workers') = Len(workers) => pendingWorkers' = pendingWorkers
        /\ Len(workers') # Len(workers) =>
              /\ pendingWorkers # <<>>
              /\ workers' = Append(workers, [id |-> Head(pendingWorkers),
                                             status |-> BGWH_NOT_YET_STARTED])
              /\ pendingWorkers' = Tail(pendingWorkers)]_vars

\* C5's case: a launch has just failed (the handle was cleared and no worker
\* registered in its place) and the id is still at the front of the list.
C5_Witness ==
    /\ bs_pc = "wait"
    /\ last_worker = NULL
    /\ Len(workers) = 1
    /\ workers[1].status = BGWH_STOPPED
    /\ Len(pendingWorkers) = 2

\* A step that is a call of processOnePendingWorker.
TickStep == bs_pc = "tick" /\ bs_pc' = "wait"

\* A step that registers a worker.
DispatchStep == Len(workers') > Len(workers)

\* C13: a call of processOnePendingWorker that finds the remembered worker
\* stopped registers no worker.
C13_ClearAndDispatchOnSeparateTicks ==
    [][(/\ TickStep
        /\ pendingWorkers # <<>>
        /\ last_worker # NULL
        /\ workers[last_worker].status = BGWH_STOPPED)
       => ~DispatchStep]_vars

\* C14: no worker is registered by a step taken after SIGTERM was delivered
\* to the BufferSaver.
C14_NoDispatchAfterShutdownRequest ==
    [][got_sigterm => ~DispatchStep]_vars

\* C15: nothing is pending or registered before RegisterBlockReaders has
\* run; after it the pending list only loses its first element, and loses
\* it in the step that registers a worker for exactly that id; no id occurs
\* twice among the registered and the pending ids.
C15_ConsumedFromFrontOnce ==
    /\ [](bs_pc = "register" => pendingWorkers = <<>> /\ workers = <<>>)
    /\ [](\A a, b \in 1 .. Len(DispatchedIds \o pendingWorkers) :
             (DispatchedIds \o pendingWorkers)[a] =
                 (DispatchedIds \o pendingWorkers)[b] => a = b)
    /\ [][bs_pc # "register" =>
            /\ pendingWorkers' # pendingWorkers =>
                  /\ pendingWorkers # <<>>
                  /\ pendingWorkers' = Tail(pendingWorkers)
                  /\ DispatchStep
            /\ DispatchStep =>
                  /\ DispatchedIds' = Append(DispatchedIds, Head(pendingWorkers))
                  /\ pendingWorkers' = Tail(pendingWorkers)]_vars

\* C15's case: readdir returned 6, 1, 5; the workers for 6 and 1 are
\* registered, in that order, and 5 is pending.
C15_Witness ==
    /\ DispatchedIds = <<6, 1>>
    /\ pendingWorkers = <<5>>

\* C16: RegisterBlockReaders fills the pending list iff the extension is
\* enabled when it runs and save-files exist; a list left empty stays empty
\* and no worker is ever registered then; the step after the main loop
\* enters SaveBuffers iff the extension is enabled at that step, and
\* SaveBuffers runs at no other moment.
C16_EnabledAtStartupAndShutdown ==
    /\ [][bs_pc = "register" /\ bs_pc' # bs_pc =>
            (pendingWorkers' # <<>>) =
                (guc_enabled /\ DOMAIN savefiles # {})]_vars
    /\ [][bs_pc # "register" /\ pendingWorkers = <<>> /\ workers = <<>> =>
            pendingWorkers' = <<>> /\ workers' = <<>>]_vars
    /\ [][bs_pc = "shutdown" /\ bs_pc' # bs_pc =>
            /\ (bs_pc' = "saving") = guc_enabled
            /\ (sb'.pc # "idle") = guc_enabled]_vars
    /\ [](sb.pc # "idle" => bs_pc \in {"saving", "exit"})

\* C16's case: save-file 5 was there at startup and no worker was ever
\* registered or pending (the extension was disabled then), and SaveBuffers
\* has been entered (it was enabled by a reload before the shutdown).
C16_Witness ==
    /\ bs_pc = "saving"
    /\ sb.pc = "scan"
    /\ 5 \in DOMAIN savefiles
    /\ workers = <<>>
    /\ pendingWorkers = <<>>

\* C17: a call of processOnePendingWorker with parallelism enabled and a
\* pending id either registers a worker for the first pending id and
\* remembers its handle, or has tried and failed (nothing registered, no
\* handle remembered); it never returns with the old handle kept.  The
\* remembered handle is always none or that of the latest worker.
C17_ParallelNeverWaits ==
    /\ [][(TickStep /\ guc_parallel_enabled /\ pendingWorkers # <<>>) =>
            \/ /\ workers' = Append(workers, [id |-> Head(pendingWorkers),
                                               status |-> BGWH_NOT_YET_STARTED])
               /\ pendingWorkers' = Tail(pendingWorkers)
               /\ last_worker' = Len(workers')
            \/ /\ workers' = workers
               /\ pendingWorkers' = pendingWorkers
               /\ last_worker' = NULL]_vars
    /\ [](last_worker \in {NULL, Len(workers)})

\* C17's case: three workers registered in parallel mode, the first
\* running, the second not yet started, the third stopped.
C17_Witness ==
    /\ guc_parallel_enabled
    /\ Len(workers) = 3
    /\ workers[1].status = BGWH_STARTED
    /\ workers[2].status = BGWH_NOT_YET_STARTED
    /\ workers[3].status = BGWH_STOPPED
    /\ last_worker = 3

\* C18: while SaveBuffers runs in the BufferSaver no registered BlockReader
\* is live.
C18_NoLiveWorkerDuringSave ==
    (bs_pc = "saving" /\ sb.pc = "write")
        => LiveWorkers = {}

\* The worker of save-file id has been dispatched.
IsDispatched(id) == \E h \in 1 .. Len(workers) : workers[h].id = id

\* No shutdown request arrives and the loop keeps turning.
LoopKeepsTurning == [](~got_sigterm /\ bs_pc # "exit")

\* At startup every save-file found is queued; later an id leaves the queue
\* only from the front and only by being dispatched.
QueuedThenDispatched ==
    /\ (bs_pc = "register" /\ bs_pc' # "register" /\ guc_enabled) =>
          \A id \in DOMAIN savefiles :
              \E k \in 1 .. Len(pendingWorkers') : pendingWorkers'[k] = id
    /\ (bs_pc # "register" /\ pendingWorkers' # pendingWorkers) =>
          /\ pendingWorkers' = Tail(pendingWorkers)
          /\ workers' = Append(workers, [id |-> Head(pendingWorkers),
                                         status |-> BGWH_NOT_YET_STARTED])

\* C20: when no shutdown request arrives, the loop keeps turning, workers
\* stop and launches do not fail forever, the queue becomes empty and stays
\* empty, and every id found at startup has left it by being dispatched,
\* whatever the parallelism setting is and however it changes.
C20_SchedulerProgress ==
    /\ [][QueuedThenDispatched]_vars
    /\ LoopKeepsTurning =>
          <>[](bs_pc # "register" /\ pendingWorkers = <<>>)

\* Every save-file of the directory was queued and dispatched, one worker
\* after the other, and the loop is still turning.
C20_Witness ==
    /\ ~got_sigterm
    /\ bs_pc = "wait"
    /\ ~everParallel
    /\ pendingWorkers = <<>>
    /\ Len(workers) = Cardinality(SaveFileIds)
    /\ \A id \in SaveFileIds : IsDispatched(id)
    /\ Cardinality(LiveWorkers) = 1

\* The remembered worker is starting or running.
LastWorkerIsLive ==
    /\ last_worker # NULL
    /\ workers[last_worker].status \in {BGWH_STARTED, BGWH_NOT_YET_STARTED}

\* C25: a call of processOnePendingWorker registers at most one worker; with
\* an empty list, and with parallelism disabled while the remembered worker
\* has not stopped, it registers none and leaves the list and the
\* remembered handle as they are.
C25_AtMostOneDispatchPerCall ==
    [][TickStep =>
        /\ Len(workers') <= Len(workers) + 1
        /\ SubSeq(workers', 1, Len(workers)) = workers
        /\ (pendingWorkers = <<>> \/ (~guc_parallel_enabled /\ LastWorkerIsLive))
              => /\ workers' = workers
                 /\ pendingWorkers' = pendingWorkers
                 /\ last_worker' = last_worker]_vars

\* A call has returned with every worker dispatched and stopped and the
\* handle of the last one still remembered.
C25_Witness ==
    /\ bs_pc = "wait"
    /\ pendingWorkers = <<>>
    /\ last_worker = Cardinality(SaveFileIds)
    /\ LiveWorkers = {}
    /\ ~got_sigterm

(***************************************************************************)
(* Claims about ReadBlocks (checked under SpecReader).                     *)
(***************************************************************************)
\* The records of the save-file the reader is working on.
Recs == savefiles[rb.filenum].recs

\* The last record before the i-th with one of the tags, 0 if there is none.
LastBefore(recs, tags, i) ==
    LET js == {j \in 1 .. i - 1 : recs[j].tag \in tags}
    IN  IF js = {} THEN 0 ELSE CHOOSE j \in js : \A k \in js : k <= j

\* The reader has consumed records and its save-file is still there.
Replaying == rb.pc # "idle" /\ rb.filenum \in DOMAIN savefiles

\* C6: the save-file is removed only by a reader that has consumed every
\* record of it.
C6_DeletedOnlyAfterFullPass ==
    [][(rb.filenum \in DOMAIN savefiles /\ rb.filenum \notin DOMAIN savefiles')
       => rb.pos = Len(Recs)]_vars

\* The i-th record is one of the corrupt shapes: an unknown tag, a fork
\* record with no file-identity record before it, a block record with no
\* fork record before it, a range record with no block record before it.
Corrupt(recs, i) ==
    \/ recs[i].tag \notin {"r", "f", "b", "N"}
    \/ recs[i].tag = "f" /\ LastBefore(recs, {"r"}, i) = 0
    \/ recs[i].tag = "b" /\ LastBefore(recs, {"f"}, i) = 0
    \/ recs[i].tag = "N" /\ LastBefore(recs, {"b"}, i) = 0

\* C7: the replay never gets past a corrupt record (it ends there with an
\* error), so a reader that got past one neither removes the file nor logs
\* the completion message.
C7_CorruptRecordIsFatal ==
    Replaying => \A i \in 1 .. rb.pos : ~Corrupt(Recs, i)

\* What governs the i-th record: the last file-identity record before it,
\* the last fork record after that one, the last block record after that.
RelOf(recs, i) == LastBefore(recs, {"r"}, i)
ForkOf(recs, i) == LastBefore(recs, {"r", "f"}, i)
BlockOf(recs, i) == LastBefore(recs, {"r", "f", "b"}, i)

\* The file-identity record governing the i-th record did not resolve.
StaleRel(recs, i) ==
    RelOf(recs, i) # 0 /\ ~trail[RelOf(recs, i)].found

\* The fork record governing the i-th record named a fork that is gone.
StaleFork(recs, i) ==
    /\ ForkOf(recs, i) # 0
    /\ recs[ForkOf(recs, i)].tag = "f"
    /\ trail[ForkOf(recs, i)].asked = "fork"
    /\ ~trail[ForkOf(recs, i)].found

\* C8: no record governed by an unresolved file-identity record or by a
\* fork record of a missing fork fetches anything; the skipping itself is
\* no error (the only errors of the loop are those of a record that lacks
\* its governing record, or an unknown tag); and a block record governed by
\* a resolved relation and an existing fork of n blocks is fetched whenever
\* its block is below n, whatever was skipped before.
C8_StaleSkipped ==
    Replaying =>
        /\ \A i \in 1 .. rb.pos :
              (StaleRel(Recs, i) \/ StaleFork(Recs, i)) => trail[i].fetches = <<>>
        /\ rb.err = ErrForkWithoutRel => RelOf(Recs, rb.pos + 1) = 0
        /\ rb.err = ErrBlockWithoutFork =>
              (ForkOf(Recs, rb.pos + 1) = 0
               \/ Recs[ForkOf(Recs, rb.pos + 1)].tag = "r")
        /\ rb.err = ErrRangeWithoutBlock =>
              (BlockOf(Recs, rb.pos + 1) = 0
               \/ Recs[BlockOf(Recs, rb.pos + 1)].tag # "b")
        /\ rb.err = ErrUnexpectedMarker => Recs[rb.pos + 1].tag = "x"
        /\ \A i \in 1 .. rb.pos :
              (/\ Recs[i].tag = "b"
               /\ ForkOf(Recs, i) # 0
               /\ trail[ForkOf(Recs, i)].asked = "fork"
               /\ trail[ForkOf(Recs, i)].found
               /\ Recs[i].val < trail[ForkOf(Recs, i)].nblocks)
              => trail[i].fetches = <<Recs[i].val>>

\* C8's case: a stale relation with a fork and a block skipped, then a
\* relation that resolves and whose block is fetched.
C8_Witness ==
    /\ Replaying
    /\ rb.pos = 4
    /\ Recs[1].tag = "r" /\ ~trail[1].found
    /\ Recs[2].tag = "f"
    /\ Recs[3].tag = "b"
    /\ Recs[4].tag = "r" /\ trail[4].found
    /\ rb.pc = "loop"

\* The blocks b+1 .. min(b+L, n-1) in ascending order.
RangeBlocks(b, L, n) ==
    LET last == IF b + L < n - 1 THEN b + L ELSE n - 1
    IN  [k \in 1 .. last - b |-> b + k]

\* The i-th record is governed by a resolved relation and an existing fork.
Governed(recs, i) ==
    /\ ForkOf(recs, i) # 0
    /\ trail[ForkOf(recs, i)].asked = "fork"
    /\ trail[ForkOf(recs, i)].found

\* C9: under a fork of n blocks a block record b is fetched iff b < n; a
\* range record of length L after a fetched block b fetches exactly
\* b+1 .. min(b+L, n-1) in ascending order, after a skipped block nothing.
C9_BlockAndRangeReplay ==
    Replaying =>
        \A i \in 1 .. rb.pos :
            Governed(Recs, i) =>
                LET n == trail[ForkOf(Recs, i)].nblocks
                    j == BlockOf(Recs, i)
                IN  /\ Recs[i].tag = "b" =>
                          trail[i].fetches =
                              IF Recs[i].val < n THEN <<Recs[i].val>> ELSE <<>>
                    /\ (Recs[i].tag = "N" /\ Recs[j].tag = "b") =>
                          trail[i].fetches =
                              IF Recs[j].val < n
                              THEN RangeBlocks(Recs[j].val, Recs[i].val, n)
                              ELSE <<>>

\* C9 for the range records whose end b+L is a BlockNumber (no wrap-around).
C9_BlockAndRangeReplayNoWrap ==
    Replaying =>
        \A i \in 1 .. rb.pos :
            Governed(Recs, i) =>
                LET n == trail[ForkOf(Recs, i)].nblocks
                    j == BlockOf(Recs, i)
                IN  /\ Recs[i].tag = "b" =>
                          trail[i].fetches =
                              IF Recs[i].val < n THEN <<Recs[i].val>> ELSE <<>>
                    /\ (/\ Recs[i].tag = "N"
                        /\ Recs[j].tag = "b"
                        /\ Recs[j].val + Recs[i].val < BlockMod) =>
                          trail[i].fetches =
                              IF Recs[j].val < n
                              THEN RangeBlocks(Recs[j].val, Recs[i].val, n)
                              ELSE <<>>

\* The scenario of C9: records [r:42, f:0, b:10, N:2] with n > 12 fetch
\* exactly blocks 10, 11, 12 of file 42 fork 0, in that order.
C9_Scenario ==
    (/\ Replaying
     /\ rb.pos = 4
     /\ Recs = <<[tag |-> "r", val |-> 42], [tag |-> "f", val |-> 0],
                 [tag |-> "b", val |-> 10], [tag |-> "N", val |-> 2]>>
     /\ trail[1].found /\ trail[2].found /\ trail[2].nblocks > 12)
    => /\ Len(fetched) = 3
       /\ \A k \in 1 .. 3 :
             /\ fetched[k].filenode = 42
             /\ fetched[k].forknum = 0
             /\ fetched[k].blocknum = 9 + k

C9_ScenarioWitness ==
    /\ Replaying
    /\ rb.pos = 4
    /\ Recs = <<[tag |-> "r", val |-> 42], [tag |-> "f", val |-> 0],
                [tag |-> "b", val |-> 10], [tag |-> "N", val |-> 2]>>
    /\ trail[1].found /\ trail[2].found /\ trail[2].nblocks > 12

(***************************************************************************)
(* Claims about SaveBuffers (checked under SpecSave) and about the round   *)
(* trip (checked under SpecRoundTrip).                                     *)
(***************************************************************************)
\* The pages of the pool that are to be saved.
ResidentPages ==
    {BufferDescriptors[a].tag :
        a \in {x \in 1 .. NBuffers : IsSaved(BufferDescriptors[x])}}

\* The page k blocks after p in the same database, relation and fork.
PageAfter(p, k) == [p EXCEPT !.blocknum = p.blocknum + k]

\* p starts a maximal run of consecutive blocks, and the length of that run.
RunStart(S, p) == PageAfter(p, -1) \notin S

RunLength(S, p) ==
    CHOOSE k \in 1 .. Cardinality(S) :
        /\ \A j \in 0 .. k - 1 : PageAfter(p, j) \in S
        /\ PageAfter(p, k) \notin S

\* The records of wlog that went to save-file id, as the file holds them.
RECURSIVE WrittenTo(_, _)
WrittenTo(log, id) ==
    IF log = <<>> THEN <<>>
    ELSE LET rest == WrittenTo(SubSeq(log, 1, Len(log) - 1), id)
             last == log[Len(log)]
         IN  IF last.file = id
             THEN Append(rest, [tag |-> last.tag, val |-> last.val])
             ELSE rest

\* The write loop of SaveBuffers has come to its end (it has not when the
\* assertion of line 835 stopped the process at the first buffer).
WriteLoopOver ==
    /\ sb.pc \in {"close", "done", "crashed"}
    /\ sb.i = sb.num_buffers

\* The positions in wlog of the records with this tag written for page p.
RecordsFor(tag, p) ==
    {n \in 1 .. Len(wlog) : wlog[n].tag = tag /\ wlog[n].buf = p}

\* C2: once the write loop is over, the save-files hold what was written;
\* every page that starts a maximal run of k consecutive blocks of its
\* database, relation and fork has exactly one 'b' record, with its block
\* number, followed at once in the same file by an 'N' record of k-1 when
\* k >= 2 and by no 'N' record when k = 1; no other page has a 'b' record,
\* and there is no further 'N' record.
C2_RangeCompression ==
    WriteLoopOver =>
        /\ \A id \in DOMAIN savefiles :
              savefiles[id].recs = WrittenTo(wlog, id)
        /\ \A p \in ResidentPages :
              IF RunStart(ResidentPages, p)
              THEN /\ Cardinality(RecordsFor("b", p)) = 1
                   /\ \A n \in RecordsFor("b", p) :
                         /\ wlog[n].val = p.blocknum
                         /\ IF RunLength(ResidentPages, p) >= 2
                            THEN /\ n < Len(wlog)
                                 /\ wlog[n + 1] =
                                      [file |-> wlog[n].file, tag |-> "N",
                                       val |-> RunLength(ResidentPages, p) - 1,
                                       buf |-> p]
                            ELSE n = Len(wlog) \/ wlog[n + 1].tag # "N"
              ELSE RecordsFor("b", p) = {}
        /\ Cardinality({n \in 1 .. Len(wlog) : wlog[n].tag = "N"}) =
              Cardinality({p \in ResidentPages :
                              /\ RunStart(ResidentPages, p)
                              /\ RunLength(ResidentPages, p) >= 2})
        /\ Cardinality({n \in 1 .. Len(wlog) : wlog[n].tag = "b"}) =
              Cardinality({p \in ResidentPages : RunStart(ResidentPages, p)})

\* C2's case: a run of two blocks of fork 0 and the numerically next block
\* in fork 1 of the same relation.
C2_Witness ==
    /\ sb.pc = "done"
    /\ ResidentPages =
          {[database |-> 0, filenode |-> 42, forknum |-> 0, blocknum |-> 0],
           [database |-> 0, filenode |-> 42, forknum |-> 0, blocknum |-> 1],
           [database |-> 0, filenode |-> 42, forknum |-> 1, blocknum |-> 2]}
    /\ savefiles[1].recs =
          <<[tag |-> "r", val |-> 42], [tag |-> "f", val |-> 0],
            [tag |-> "b", val |-> 0], [tag |-> "N", val |-> 1],
            [tag |-> "f", val |-> 1], [tag |-> "b", val |-> 2]>>

\* C10: with nothing scanned SaveBuffers completes normally and leaves
\* save-file 1 with the empty name and no record.
C10_EmptyScanWritesGlobalFile ==
    (sb.pc \in {"done", "crashed"} /\ sb.num_buffers = 0) =>
        /\ sb.pc = "done"
        /\ 1 \in DOMAIN savefiles
        /\ savefiles[1] = [name |-> "", recs |-> <<>>]

\* What identifies a page in a fetch: the name of its database as the
\* save-file header holds it (empty for the global objects), the relation,
\* the fork and the block.
PageKey(p) ==
    [dbname |-> IF p.database = InvalidOid THEN ""
                ELSE get_database_name(p.database),
     filenode |-> p.filenode, forknum |-> p.forknum, blocknum |-> p.blocknum]

FetchKey(f) ==
    [dbname |-> f.dbname, filenode |-> f.filenode, forknum |-> f.forknum,
     blocknum |-> f.blocknum]

\* SaveBuffers has returned and every save-file has been replayed and removed.
RoundTripOver ==
    /\ sb.pc = "done"
    /\ rb.pc = "exited"
    /\ DOMAIN savefiles = {}

\* C1: no BlockReader fails on a file SaveBuffers wrote, and once every file
\* is replayed there is exactly one fetch per saved page, made for the
\* database, relation, fork and block of that page, and no other fetch.
C1_RoundTrip ==
    /\ rb.err \in {"", ErrRemove}
    /\ RoundTripOver =>
          /\ Len(fetched) = Cardinality(ResidentPages)
          /\ {FetchKey(fetched[k]) : k \in 1 .. Len(fetched)} =
                {PageKey(p) : p \in ResidentPages}

\* The pools C1 holds for: a page of the global objects is among the saved
\* pages, and no saved page has relation number 0 (InvalidOid).
GlobalFirstNoZero ==
    /\ \E p \in ResidentPages : p.database = InvalidOid
    /\ \A p \in ResidentPages : p.filenode # InvalidOid

C1_RoundTripGlobalFirstNoZero ==
    GlobalFirstNoZero => C1_RoundTrip

C1_RoundTripReached ==
    RoundTripOver /\ GlobalFirstNoZero /\ Cardinality(ResidentPages) = 3
    /\ Cardinality({p.database : p \in ResidentPages}) = 3

\* The pages of S in some order.
RECURSIVE SomeOrder(_)
SomeOrder(S) ==
    IF S = {} THEN <<>>
    ELSE LET x == CHOOSE y \in S : TRUE
         IN  <<x>> \o SomeOrder(S \ {x})

\* Other buffer pools that hold the pages of this one: the pages in the
\* order of SomeOrder in the first descriptors, the descriptors in reverse
\* order, and the descriptors rotated by one.
OtherOrders(pool) ==
    LET pages == SomeOrder({pool[a].tag :
                               a \in {x \in 1 .. NBuffers : IsSaved(pool[x])}})
    IN  {[a \in 1 .. NBuffers |->
             IF a <= Len(pages)
             THEN [valid |-> TRUE, tag_valid |-> TRUE, tag |-> pages[a]]
             ELSE [valid |-> FALSE, tag_valid |-> TRUE, tag |-> LeftoverTag]],
         [a \in 1 .. NBuffers |-> pool[NBuffers + 1 - a]],
         [a \in 1 .. NBuffers |-> pool[(a % NBuffers) + 1]]}

\* C11: when SaveBuffers has returned, the save-files it has written (ids,
\* headers, record sequences) are those a run of SaveBuffers writes when the
\* scan meets the same pages in another order; so any two runs on the same
\* set of pages write the same files.
C11_SaveIsDeterministic ==
    sb.pc = "done" =>
        \A other \in OtherOrders(BufferDescriptors) :
            SaveBuffersOn(other) = savefiles

\* C11's case: the scan met pages of two databases in descending order.
C11_Witness ==
    /\ sb.pc = "done"
    /\ Cardinality(ResidentPages) >= 2
    /\ \E a, b \in 1 .. NBuffers :
          /\ a < b
          /\ IsSaved(BufferDescriptors[a])
          /\ IsSaved(BufferDescriptors[b])
          /\ BufferDescriptors[a].tag.database = 5
          /\ BufferDescriptors[b].tag.database = InvalidOid
    /\ DOMAIN savefiles = {1, 2}

\* The databases of the saved pages other than the global objects.
SavedDatabases == {p.database : p \in ResidentPages} \ {InvalidOid}

\* The save-file of the pages of database d: 1 for the global objects, and
\* 2, 3, ... for the other databases in ascending order of their numbers.
FileOfDatabase(d) ==
    IF d = InvalidOid THEN 1
    ELSE 2 + Cardinality({e \in SavedDatabases : e < d})

\* C12: once the write loop is over, every record written for a page of
\* database d is in the save-file of d (so a file holds pages of one
\* database and a database has one file), save-file 1 has the empty name,
\* the save-file of every other database has the name of that database,
\* which is not empty, and there is no other save-file.
C12_OneFilePerDatabase ==
    WriteLoopOver =>
        /\ \A n \in 1 .. Len(wlog) :
              wlog[n].file = FileOfDatabase(wlog[n].buf.database)
        /\ \A id \in DOMAIN savefiles :
              \/ id = 1 /\ savefiles[id].name = ""
              \/ \E d \in SavedDatabases :
                    /\ id = FileOfDatabase(d)
                    /\ savefiles[id].name = get_database_name(d)
                    /\ savefiles[id].name # ""
        /\ \A d \in SavedDatabases : FileOfDatabase(d) \in DOMAIN savefiles

\* C12 for the pools that hold a page of the global objects.
C12_OneFilePerDatabaseGlobalFirst ==
    (\E p \in ResidentPages : p.database = InvalidOid)
        => C12_OneFilePerDatabase

C12_GlobalFirstReached ==
    /\ sb.pc = "done"
    /\ {p.database : p \in ResidentPages} = {InvalidOid, 5, 6}
    /\ DOMAIN savefiles = {1, 2, 3}
    /\ savefiles[3].name = get_database_name(6)


(***************************************************************************)
(* Claims about the locks of the scan.                                     *)
(***************************************************************************)
AllPartitions == 0 .. NUM_BUFFER_PARTITIONS - 1

\* A step that takes one more partition lock, one that gives one back, and
\* the inspection of a descriptor.
PartitionAcquired ==
    \E p \in AllPartitions :
        /\ p \notin lockHeld.partitions
        /\ lockHeld'.partitions = lockHeld.partitions \cup {p}

PartitionReleased ==
    \E p \in AllPartitions :
        /\ p \in lockHeld.partitions
        /\ lockHeld'.partitions = lockHeld.partitions \ {p}

ScanIsOver == sb.pc \in {"sort", "write", "close", "done", "crashed"}

LocksWellNested ==
    /\ Cardinality(lockHeld.headers) <= 1
    /\ lockHeld.headers # {} => lockHeld.partitions = AllPartitions
    /\ sb.pc = "inspect" =>
          /\ lockHeld.headers = {sb.i}
          /\ lockHeld.partitions = AllPartitions
    /\ ScanIsOver => lockHeld = NoLock

\* Every step that changes the locks held takes or gives back the right one.
LockStepInOrder ==
    /\ PartitionAcquired =>
          /\ lockHeld.partitions = 0 .. Cardinality(lockHeld.partitions) - 1
          /\ lockHeld'.partitions = 0 .. Cardinality(lockHeld.partitions)
          /\ lockHeld.headers = {}
    /\ PartitionReleased =>
          /\ lockHeld.partitions = 0 .. Cardinality(lockHeld.partitions) - 1
          /\ lockHeld'.partitions = 0 .. Cardinality(lockHeld.partitions) - 2
          /\ lockHeld.headers = {}
    /\ lockHeld'.headers # lockHeld.headers =>
          \/ lockHeld.headers = {} /\ lockHeld'.headers = {sb.i}
          \/ lockHeld.headers = {sb.i} /\ lockHeld'.headers = {}

\* C19: the partition locks are taken in the order 0, 1, .., P-1 and given
\* back in the order P-1, .., 0; a descriptor lock is taken only while all
\* partition locks are held, at most one descriptor lock is held at a time,
\* the descriptor inspected is the one locked, the lock is given back before
\* the next descriptor's is taken, and no lock is held once the scan is over.
C19_ScanLockDiscipline == []LocksWellNested /\ [][LockStepInOrder]_vars

\* The last descriptor was copied, and a first partition lock was given back.
C19_Witness ==
    /\ sb.pc = "LWLockRelease"
    /\ lockHeld.partitions = 0 .. NUM_BUFFER_PARTITIONS - 2
    /\ sb.num_buffers = NBuffers


(***************************************************************************)
(* Claims about the result of the scan.                                    *)
(***************************************************************************)
\* How many elements of saved_buffers are the tag of descriptor a.
RefsOf(a) ==
    Cardinality({k \in 1 .. Len(sb.saved_buffers) :
                    sb.saved_buffers[k] = BufferDescriptors[a].tag})

\* The descriptors the scan has inspected so far.
Inspected ==
    CASE sb.pc \in {"scan", "idle"} -> {}
      [] sb.pc \in {"LockBufHdr", "inspect"} -> 1 .. sb.i
      [] sb.pc = "UnlockBufHdr" -> 1 .. sb.i + 1
      [] OTHER -> 1 .. NBuffers

ScanResultExact ==
    /\ sb.num_buffers = Len(sb.saved_buffers)
    /\ sb.num_buffers <= NBuffers
    /\ \A a \in 1 .. NBuffers :
          RefsOf(a) = IF /\ a \in Inspected
                         /\ BufferDescriptors[a].valid
                         /\ BufferDescriptors[a].tag_valid
                      THEN 1 ELSE 0
    /\ sb.pc = "sort" =>
          sb.saved_buffers = ScanBuffers(BufferDescriptors, NBuffers)

\* C24: the scan copies the tag of every descriptor that is valid and
\* tag-valid when it is inspected, once, and of no other descriptor; it
\* never holds more tags than there are descriptors; and no step of it
\* changes a descriptor.
C24_ScanReturnsValidPages ==
    []ScanResultExact /\ [][BufferDescriptors' = BufferDescriptors]_vars

\* The scan is over; it met a descriptor that is valid only, one that is
\* tag-valid only and one that is both.
C24_Witness ==
    /\ sb.pc = "sort"
    /\ sb.num_buffers = 1
    /\ \E a, b, c \in 1 .. NBuffers :
          /\ BufferDescriptors[a].valid /\ ~BufferDescriptors[a].tag_valid
          /\ ~BufferDescriptors[b].valid /\ BufferDescriptors[b].tag_valid
          /\ BufferDescriptors[c].valid /\ BufferDescriptors[c].tag_valid


(***************************************************************************)
(* Claims about the shape of the save-files written.                       *)
(***************************************************************************)
\* The records are in an order ReadBlocks decodes without an error: an 'r'
\* record first, an 'r' record before every 'f' record, an 'f' record
\* between the last 'r' record and every 'b' record, a 'b' record right
\* before every 'N' record.
WellFormed(recs) ==
    /\ recs # <<>> => recs[1].tag = "r"
    /\ \A i \in 1 .. Len(recs) :
          /\ recs[i].tag \in {"r", "f", "b", "N"}
          /\ recs[i].tag = "f" => LastBefore(recs, {"r"}, i) # 0
          /\ recs[i].tag = "b" =>
                /\ LastBefore(recs, {"r", "f"}, i) # 0
                /\ recs[LastBefore(recs, {"r", "f"}, i)].tag = "f"
          /\ recs[i].tag = "N" => i > 1 /\ recs[i - 1].tag = "b"

\* C23: every save-file SaveBuffers writes is well-formed at every point of
\* the writing, whatever pages were scanned, relation number 0 included.
C23_WellFormedOutput ==
    \A id \in DOMAIN savefiles : WellFormed(savefiles[id].recs)

\* The same for collections without a page of relation number 0.
C23_WellFormedOutputNoZero ==
    (\A p \in ResidentPages : p.filenode # InvalidOid)
        => \A id \in DOMAIN savefiles : WellFormed(savefiles[id].recs)

\* Two save-files were written, one of them with a range record.
C23_NoZeroReached ==
    /\ sb.pc = "done"
    /\ \A p \in ResidentPages : p.filenode # InvalidOid
    /\ Cardinality(DOMAIN savefiles) = 2
    /\ \E id \in DOMAIN savefiles :
          \E i \in 1 .. Len(savefiles[id].recs) :
              savefiles[id].recs[i].tag = "N"


(***************************************************************************)
(* Claims about the end of a BlockReader.                                  *)
(***************************************************************************)
\* "all blocks read successfully" has been logged (line 434).
CompletionLogged == rb.pc = "exited"

\* The worker has left through ereport(ERROR).
EndedInError == rb.pc = "error"

\* ReadBlocks has returned, or the message is logged, only with the
\* save-file removed and no error raised; after an error the file the
\* worker was reading is still there, unless it never was.
EndStateContract ==
    /\ rb.pc \in {"returned", "exited"} =>
          /\ rb.filenum \notin DOMAIN savefiles
          /\ rb.err = ""
    /\ EndedInError =>
          /\ rb.err # ""
          /\ rb.err # ErrNoSavefile => rb.filenum \in DOMAIN savefiles

\* The steps that end a worker: the file goes away only in a step in which
\* ReadBlocks returns, the message follows the return and nothing else
\* does, and nothing follows an error.
EndStepContract ==
    /\ (rb.filenum \in DOMAIN savefiles
            /\ rb.filenum \notin DOMAIN savefiles')
          => rb.pc = "after" /\ rb'.pc = "returned"
    /\ (~CompletionLogged /\ CompletionLogged') => rb.pc = "returned"
    /\ (rb.pc = "returned" /\ rb' # rb) => CompletionLogged'
    /\ EndedInError => rb' = rb
    /\ CompletionLogged => rb' = rb

\* C22: "all blocks read successfully" is logged exactly by the workers in
\* which ReadBlocks returned, which it does only after removing the
\* save-file; a worker that ended with an ERROR (no save-file, a failed
\* read, a corrupt record, a failed remove) never logs it.
C22_CompletionMessageIffFileDeleted ==
    []EndStateContract /\ [][EndStepContract]_vars

\* A worker that fetched blocks has logged the message.
C22_Witness ==
    /\ CompletionLogged
    /\ ~rb.got_sigterm
    /\ fetched # <<>>
    /\ rb.filenum \notin DOMAIN savefiles


(***************************************************************************)
(* Claims about the fetches of a replay, complete or not.                  *)
(***************************************************************************)
\* The block numbers the i-th record names: the block of a 'b' record, the
\* blocks b+1 .. b+L of an 'N' record of length L after the block record b.
Named(recs, i) ==
    LET j == BlockOf(recs, i)
    IN  IF recs[i].tag = "b" THEN {recs[i].val}
        ELSE IF recs[i].tag = "N" /\ j # 0 /\ recs[j].tag = "b"
        THEN recs[j].val + 1 .. recs[j].val + recs[i].val
        ELSE {}

\* The fetches of the i-th record as the records and the resolution results
\* of the records before it determine them.
FetchesOf(recs, i) ==
    LET j == BlockOf(recs, i)
        n == trail[ForkOf(recs, i)].nblocks
    IN  IF ~Governed(recs, i) THEN <<>>
        ELSE IF recs[i].tag = "b"
        THEN IF recs[i].val < n THEN <<recs[i].val>> ELSE <<>>
        ELSE IF recs[i].tag = "N" /\ recs[j].tag = "b" /\ recs[j].val < n
        THEN RangeLoop((recs[j].val + 1) % BlockMod,
                       (recs[j].val + recs[i].val) % BlockMod, n, <<>>)
        ELSE <<>>

\* The fetches of the first k records, one after the other.
RECURSIVE FetchesUpTo(_, _)
FetchesUpTo(recs, k) ==
    IF k = 0 THEN <<>>
    ELSE FetchesUpTo(recs, k - 1)
             \o [m \in 1 .. Len(trail[k].fetches) |->
                    [filenode |-> recs[RelOf(recs, k)].val,
                     forknum |-> recs[ForkOf(recs, k)].val,
                     blocknum |-> trail[k].fetches[m]]]

FetchedPages ==
    [m \in 1 .. Len(fetched) |->
        [filenode |-> fetched[m].filenode, forknum |-> fetched[m].forknum,
         blocknum |-> fetched[m].blocknum]]

\* No block is named by two records of the file.
NamesDistinct(recs) ==
    \A i, j \in 1 .. Len(recs) :
        (/\ i < j
         /\ Named(recs, i) \cap Named(recs, j) # {}
         /\ ForkOf(recs, i) # 0 /\ ForkOf(recs, j) # 0
         /\ RelOf(recs, i) # 0 /\ RelOf(recs, j) # 0)
        => \/ recs[RelOf(recs, i)].val # recs[RelOf(recs, j)].val
           \/ recs[ForkOf(recs, i)].val # recs[ForkOf(recs, j)].val

FetchesAreNamed ==
    Replaying =>
        /\ Len(trail) = rb.pos
        /\ \A i \in 1 .. rb.pos :
              /\ trail[i].fetches = FetchesOf(Recs, i)
              /\ \A m \in 1 .. Len(trail[i].fetches) :
                    /\ trail[i].fetches[m] \in Named(Recs, i)
                    /\ m > 1 => trail[i].fetches[m - 1] < trail[i].fetches[m]
        /\ FetchedPages = FetchesUpTo(Recs, rb.pos)
        /\ NamesDistinct(Recs) =>
              \A a, b \in 1 .. Len(fetched) :
                  a # b => FetchedPages[a] # FetchedPages[b]

====
